---- MODULE Spec2Model ----
(***************************************************************************)
(* remove-letterbox: the traversal-and-dispatch engine of src/main.rs.     *)
(*                                                                         *)
(* A path is the sequence of entry positions leading from the input path   *)
(* to it: <<>> is the input path, <<2, 1>> the first entry of its second   *)
(* entry.  The position of an entry in its directory is the position at    *)
(* which the directory listing yields it.                                  *)
(***************************************************************************)
EXTENDS Integers, Sequences, FiniteSets, TLC

VARIABLES
    fs,        \* the file system: existing path -> [type, jxl, img, content]
    args,      \* the parsed command line: [recursive, threshold], or NoArgs
    pc,        \* position of the main task
    stack,     \* active process_directory_inner calls, innermost last
    cur,       \* the path process_file is working on
    inflight,  \* collaborator operations started and not yet returned
    trace,     \* directory reads and process_file calls, in order
    calls,     \* collaborator operations invoked, in order
    outcomes,  \* values returned by process_file, in order
    result,    \* what main returned
    run,       \* number of the run under way: 0 during setup
    before     \* the file system as it was when the run under way began

vars == <<fs, args, pc, stack, cur, inflight, trace, calls, outcomes, result,
          run, before>>

(***************************************************************************)
(* Bounds of the model.                                                    *)
(***************************************************************************)
MaxEntries == 3     \* directory entries created under the input path
MaxDepth == 2       \* nesting depth of the created entries

ThresholdArgs == {-1, 0, 255, 256}   \* values offered to --threshold

(***************************************************************************)
(* Program constants.                                                      *)
(***************************************************************************)
U8Max == 255              \* threshold: u8
DefaultThreshold == 10    \* default_value = "10"

\* a threshold parsed as a signed byte
U8_signed == -128..127

U8 == 0..U8Max

Root == <<>>
NoArgs == [recursive |-> FALSE, threshold |-> -1, parsed |-> FALSE]
NoPath == <<0>>

(***************************************************************************)
(* The file system the tests build: text files, images with and without    *)
(* letterbox, subdirectories.                                              *)
(***************************************************************************)
DirEntry == [type |-> "dir", jxl |-> FALSE, img |-> FALSE, content |-> "none"]
OtherEntry == [type |-> "other", jxl |-> FALSE, img |-> FALSE, content |-> "none"]
TextFile == [type |-> "file", jxl |-> FALSE, img |-> FALSE, content |-> "data"]
ImageFiles ==
    { [type |-> "file", jxl |-> j, img |-> i, content |-> c] :
        j \in BOOLEAN, i \in BOOLEAN, c \in {"boxed", "plain"} }
    \ { [type |-> "file", jxl |-> FALSE, img |-> FALSE, content |-> c] :
        c \in {"boxed", "plain"} }
Entries == {DirEntry, OtherEntry, TextFile} \cup ImageFiles
\* an input path that names nothing; its name still classifies
MissingEntries ==
    { [type |-> "missing", jxl |-> j, img |-> i, content |-> "none"] :
        j \in BOOLEAN, i \in BOOLEAN }

\* an existence check that always passes
Exists_unchecked(p) == TRUE

Exists(p) == p \in DOMAIN fs /\ fs[p].type # "missing"
\* is_file written where is_dir was meant
IsFile_asDir(p) == Exists(p) /\ fs[p].type = "dir"

IsFile(p) == Exists(p) /\ fs[p].type = "file"

\* whatever is not a regular file taken for a directory
IsDir_notFile(p) == Exists(p) /\ fs[p].type # "file"

IsDir(p) == Exists(p) /\ fs[p].type = "dir"

Parent(p) == SubSeq(p, 1, Len(p) - 1)
ChildrenOf(d) == { p \in DOMAIN fs : Len(p) = Len(d) + 1 /\ Parent(p) = d }
NumEntries(d) == Cardinality(ChildrenOf(d))

(***************************************************************************)
(* anyhow::Result<()> values.  context lists the messages attached to the  *)
(* error, each with the path it names.                                     *)
(***************************************************************************)
NoResult == [status |-> "none", kind |-> "none", context |-> <<>>]
OkResult == [status |-> "ok", kind |-> "none", context |-> <<>>]
Err(kind, context) == [status |-> "err", kind |-> kind, context |-> context]
Ctx(msg, p) == [msg |-> msg, path |-> p]

\* .with_context(|| format!(msg, path.display())) on a Result
WithContext(r, msg, p) ==
    IF r.status = "err"
    THEN [r EXCEPT !.context = Append(@, Ctx(msg, p))]
    ELSE r

\* the error the collaborator (imx) hands back
CollabErr == Err("collaborator", <<>>)

(***************************************************************************)
(* Setup: the entries are created before the run, as the tests do with     *)
(* fs::write, fs::create_dir and create_test_image.                        *)
(***************************************************************************)
Init ==
    /\ fs \in { (Root :> e) : e \in Entries \cup MissingEntries }
    /\ args = NoArgs
    /\ pc = "setup"
    /\ stack = <<>>
    /\ cur = [path |-> NoPath, threshold |-> 0]
    /\ inflight = {}
    /\ trace = <<>>
    /\ calls = <<>>
    /\ outcomes = <<>>
    /\ result = NoResult
    /\ run = 0
    /\ before = <<>>

CreateEntry(d, e) ==
    /\ pc = "setup"
    /\ IsDir(d)
    /\ Len(d) < MaxDepth
    /\ Cardinality(DOMAIN fs) <= MaxEntries
    /\ fs' = fs @@ (Append(d, NumEntries(d) + 1) :> e)
    /\ UNCHANGED <<args, pc, stack, cur, inflight, trace, calls, outcomes, result,
                   run, before>>

(***************************************************************************)
(* main                                                                    *)
(***************************************************************************)
\* Args::parse(): threshold is a u8; a value outside it ends the process
\* with a usage error before main goes on.
ParseArgs(r, t) ==
    /\ pc = "setup"
    /\ IF t \in U8
       THEN /\ args' = [recursive |-> r, threshold |-> t, parsed |-> TRUE]
            /\ pc' = "main"
            /\ run' = 1
            /\ before' = fs
            /\ UNCHANGED result
       ELSE /\ pc' = "exited"
            /\ result' = Err("usage", <<>>)
            /\ UNCHANGED <<args, run, before>>
    /\ UNCHANGED <<fs, stack, cur, inflight, trace, calls, outcomes>>

Frame(d, r, t) == [dir |-> d, idx |-> 0, recursive |-> r, threshold |-> t]

\* main returns r
Return(r) ==
    /\ result' = r
    /\ pc' = "done"
    /\ stack' = <<>>

\* the callee returned Ok: the caller goes on
Continue ==
    IF stack = <<>>
    THEN Return(OkResult)
    ELSE pc' = "next" /\ UNCHANGED <<result, stack>>

\* a process_file whose error is dropped instead of propagated
Try_dropped(r) == Continue

\* `?` on the value process_file returned: an error leaves every active
\* call at once
Try(r) ==
    IF r.status = "err" THEN Return(r) ELSE Continue

Main ==
    /\ pc = "main"
    /\ IF ~Exists(Root)
       THEN /\ Return(Err("InputNotFound", <<Ctx("Input path does not exist", Root)>>))
            /\ UNCHANGED cur
       ELSE IF IsFile(Root)
       THEN /\ pc' = "file"
            /\ cur' = [path |-> Root, threshold |-> args.threshold]
            /\ UNCHANGED <<result, stack>>
       ELSE IF IsDir(Root)
       THEN /\ pc' = "read_dir"
            /\ stack' = <<Frame(Root, args.recursive, args.threshold)>>
            /\ UNCHANGED <<result, cur>>
       ELSE /\ Return(OkResult)
            /\ UNCHANGED cur
    /\ UNCHANGED <<fs, args, inflight, trace, calls, outcomes, run, before>>

(***************************************************************************)
(* process_file                                                            *)
(***************************************************************************)
\* a process_file that hands everything that is not JXL to the removal
Classify_noSkip(p) == IF fs[p].jxl THEN "structured" ELSE "standard"

\* a process_file that asks is_image_file first
Classify_imageFirst(p) ==
    IF fs[p].img THEN "standard"
    ELSE IF fs[p].jxl THEN "structured"
    ELSE "skip"

\* a process_file that skips a path that names nothing
Classify_missingSkipped(p) ==
    IF fs[p].type = "missing" THEN "skip"
    ELSE IF fs[p].jxl THEN "structured"
    ELSE IF ~fs[p].img THEN "skip"
    ELSE "standard"

\* the branch process_file takes: is_jxl_file is asked first, is_image_file
\* only when it said no
Classify(p) ==
    IF fs[p].jxl THEN "structured"
    ELSE IF ~fs[p].img THEN "skip"
    ELSE "standard"

\* a processor that falls back on the default threshold
create_processor_default(threshold) == DefaultThreshold

\* create_processor(threshold): the closure owns the threshold it was given
create_processor(threshold) == threshold

Call(op, p, t, via) == [op |-> op, path |-> p, threshold |-> t, via |-> via]
\* out: what the collaborator answered; res: what process_file returned
Outcome(p, branch, out, r) == [path |-> p, branch |-> branch, out |-> out, res |-> r]
Event(op, p, ok) == [op |-> op, path |-> p, ok |-> ok]

\* a process_file that starts the operation and does not await it
AfterCall_detached == IF stack = <<>> THEN "await" ELSE "next"

\* where process_file stands after it has called the collaborator: at the
\* .await, until the operation returns
AfterCall == "await"

ProcessFile ==
    /\ pc = "file"
    /\ LET p == cur.path
           t == cur.threshold
           branch == Classify(p)
       IN  /\ trace' = Append(trace, Event("process_file", p, TRUE))
           /\ IF branch = "structured"
              THEN LET c == Call("process_jxl_file", p, create_processor(t), "direct")
                   IN  /\ calls' = Append(calls, c)
                       /\ inflight' = inflight \cup {c}
                       /\ pc' = AfterCall
                       /\ UNCHANGED <<outcomes, result, stack>>
              ELSE IF branch = "skip"
              THEN /\ outcomes' = Append(outcomes, Outcome(p, "skip", "none", OkResult))
                   /\ Try(OkResult)
                   /\ UNCHANGED <<calls, inflight>>
              ELSE LET c == Call("remove_letterbox_with_threshold", p, t, "direct")
                   IN  /\ calls' = Append(calls, c)
                       /\ inflight' = inflight \cup {c}
                       /\ pc' = AfterCall
                       /\ UNCHANGED <<outcomes, result, stack>>
    /\ UNCHANGED <<fs, args, cur, run, before>>

(***************************************************************************)
(* The collaborator, as the tests of this repository observe it: a         *)
(* letterboxed image is cropped in place, any other is left as it is, and  *)
(* a path that cannot be opened is an error.                               *)
(***************************************************************************)
\* a removal that detects nothing
Cropped_never(e) == e

\* a removal that takes a band off every image it is given
Cropped_again(e) ==
    IF e.content = "boxed" THEN [e EXCEPT !.content = "cropped"]
    ELSE IF e.content = "cropped" THEN [e EXCEPT !.content = "recropped"]
    ELSE e

Cropped(e) == IF e.content = "boxed" THEN [e EXCEPT !.content = "cropped"] ELSE e

\* The structured pipeline: it decodes the container, applies the callback
\* to the raster data and encodes the result again, so the file ends as the
\* callback's removal leaves the image.
Reencoded(e) == Cropped(e)

Outs == {"ok", "fail", "callback_fail"}

\* a structured branch that drops the pipeline's result
Surface_swallowed(c, r) ==
    IF c.op = "process_jxl_file"
    THEN OkResult
    ELSE WithContext(r, "Failed to process image file", c.path)

\* what process_file makes of the collaborator's result: the structured
\* branch passes it on with `?` as it is, the standard branch attaches the
\* path first
Surface(c, r) ==
    IF c.op = "process_jxl_file"
    THEN r
    ELSE WithContext(r, "Failed to process image file", c.path)

CollabReturn(c, out) ==
    /\ c \in inflight
    /\ out = "callback_fail" => c.op = "process_jxl_file"
    /\ ~Exists(c.path) => out = "fail"
    /\ LET r == IF out = "ok" THEN OkResult ELSE CollabErr
           branch == IF c.op = "process_jxl_file" THEN "structured" ELSE "standard"
           res == Surface(c, r)
       IN  /\ inflight' = inflight \ {c}
           /\ fs' = IF out # "ok" THEN fs
                    ELSE IF c.op = "process_jxl_file"
                    THEN [fs EXCEPT ![c.path] = Reencoded(@)]
                    ELSE [fs EXCEPT ![c.path] = Cropped(@)]
           /\ calls' = IF c.op = "process_jxl_file" /\ out # "fail"
                       THEN Append(calls, Call("remove_letterbox_with_threshold",
                                               c.path, c.threshold, "callback"))
                       ELSE calls
           /\ outcomes' = Append(outcomes, Outcome(c.path, branch, out, res))
           /\ Try(res)
    /\ UNCHANGED <<args, cur, trace, run, before>>

(***************************************************************************)
(* process_directory_inner                                                 *)
(***************************************************************************)
Top == stack[Len(stack)]
Pop == SubSeq(stack, 1, Len(stack) - 1)

\* a listing taken from its end
EntryAt_reversed(d, i) == Append(d, NumEntries(d) + 1 - i)

\* entry.path() of the i-th entry next_entry yields for directory d
EntryAt(d, i) == Append(d, i)

\* a loop that takes the same entry again and again
Advanced_stuck == stack

\* the innermost walk after next_entry has yielded one more entry
Advanced == [stack EXCEPT ![Len(stack)].idx = @ + 1]

\* a walk that enters every directory it meets
Descend_always(path, recursive) == IsDir(path)

\* a walk that enters directories exactly when told not to
Descend_negated(path, recursive) == IsDir(path) /\ ~recursive

\* line 100: a directory entry is walked only under --recursive
Descend(path, recursive) == IsDir(path) /\ recursive

\* a walk that takes a directory it cannot read for an empty one
ReadDir_lenient(ok) ==
    /\ pc = "read_dir"
    /\ trace' = Append(trace, Event("read_dir", Top.dir, ok))
    /\ IF ok
       THEN pc' = "next" /\ UNCHANGED <<result, stack>>
       ELSE IF Pop = <<>>
       THEN Return(OkResult)
       ELSE pc' = "next" /\ stack' = Pop /\ UNCHANGED result
    /\ UNCHANGED <<fs, args, cur, inflight, calls, outcomes, run, before>>

ReadDir(ok) ==
    /\ pc = "read_dir"
    /\ trace' = Append(trace, Event("read_dir", Top.dir, ok))
    /\ IF ok
       THEN pc' = "next" /\ UNCHANGED <<result, stack>>
       ELSE Return(Err("read_dir", <<Ctx("Failed to read directory", Top.dir)>>))
    /\ UNCHANGED <<fs, args, cur, inflight, calls, outcomes, run, before>>

NextEntry(ok) ==
    /\ pc = "next"
    /\ LET f == Top
           path == EntryAt(f.dir, f.idx + 1)
           advanced == Advanced
       IN  IF ~ok
           THEN /\ trace' = Append(trace, Event("next_entry", f.dir, FALSE))
                /\ Return(Err("next_entry",
                              <<Ctx("Failed to read directory entry in", f.dir)>>))
                /\ UNCHANGED cur
           ELSE IF f.idx = NumEntries(f.dir)
           THEN /\ IF Pop = <<>>
                   THEN Return(OkResult)
                   ELSE pc' = "next" /\ stack' = Pop /\ UNCHANGED result
                /\ UNCHANGED <<cur, trace>>
           ELSE IF IsFile(path)
           THEN /\ pc' = "file"
                /\ cur' = [path |-> path, threshold |-> f.threshold]
                /\ stack' = advanced
                /\ UNCHANGED <<result, trace>>
           ELSE IF Descend(path, f.recursive)
           THEN /\ pc' = "read_dir"
                /\ stack' = Append(advanced, Frame(path, f.recursive, f.threshold))
                /\ UNCHANGED <<result, cur, trace>>
           ELSE /\ pc' = "next"
                /\ stack' = advanced
                /\ UNCHANGED <<result, cur, trace>>
    /\ UNCHANGED <<fs, args, inflight, calls, outcomes, run, before>>

Next ==
    \/ \E d \in DOMAIN fs, e \in Entries : CreateEntry(d, e)
    \/ \E r \in BOOLEAN, t \in ThresholdArgs : ParseArgs(r, t)
    \/ Main
    \/ ProcessFile
    \/ \E c \in inflight, out \in Outs : CollabReturn(c, out)
    \/ \E ok \in BOOLEAN : ReadDir(ok)
    \/ \E ok \in BOOLEAN : NextEntry(ok)

Spec == Init /\ [][Next]_vars

(***************************************************************************)
(* process_file called on its own, as the tests call it: on a path that    *)
(* names a file or names nothing, with threshold 10.                       *)
(***************************************************************************)
InitDirect ==
    /\ fs \in { (Root :> e) : e \in {TextFile} \cup ImageFiles \cup MissingEntries }
    /\ args = NoArgs
    /\ pc = "file"
    /\ stack = <<>>
    /\ cur = [path |-> Root, threshold |-> DefaultThreshold]
    /\ inflight = {}
    /\ trace = <<>>
    /\ calls = <<>>
    /\ outcomes = <<>>
    /\ result = NoResult
    /\ run = 1
    /\ before = fs

SpecDirect == (Init \/ InitDirect) /\ [][Next]_vars

(***************************************************************************)
(* A run whose awaited operations all return: the task is polled again     *)
(* after every directory read, entry read and collaborator call, so a step *)
(* of the run that can be taken is taken.                                  *)
(***************************************************************************)
RunNext ==
    \/ Main
    \/ ProcessFile
    \/ \E c \in inflight, out \in Outs : CollabReturn(c, out)
    \/ \E ok \in BOOLEAN : ReadDir(ok)
    \/ \E ok \in BOOLEAN : NextEntry(ok)

SpecLive == Spec /\ WF_vars(RunNext)

(***************************************************************************)
(* A second run on the same input with the same arguments, after a first   *)
(* run that returned Ok.                                                   *)
(***************************************************************************)
Rerun ==
    /\ pc = "done"
    /\ result = OkResult
    /\ run = 1
    /\ run' = 2
    /\ before' = fs
    /\ pc' = "main"
    /\ stack' = <<>>
    /\ trace' = <<>>
    /\ calls' = <<>>
    /\ outcomes' = <<>>
    /\ result' = NoResult
    /\ UNCHANGED <<fs, args, cur, inflight>>

SpecTwice == Init /\ [][Next \/ Rerun]_vars

(***************************************************************************)
(* Vocabulary of the properties.                                           *)
(***************************************************************************)
Range(s) == { s[i] : i \in DOMAIN s }
Count(s, x) == Cardinality({ i \in DOMAIN s : s[i] = x })
IsPrefix(s, t) == Len(s) <= Len(t) /\ \A i \in DOMAIN s : s[i] = t[i]
Dispatched(p) == Event("process_file", p, TRUE)
Read(d) == Event("read_dir", d, TRUE)
CallsOn(p) == { i \in DOMAIN calls : calls[i].path = p }
Modified(p) == fs[p].content = "cropped"

\* The traversal order of a run in which nothing fails: the entries of a
\* directory in listing order, a subdirectory's subtree in the place of its
\* entry when the run is recursive.
RECURSIVE Walk(_, _, _)
Walk(d, i, rec) ==
    IF Append(d, i) \notin DOMAIN fs THEN <<>>
    ELSE LET p == Append(d, i)
             here == IF fs[p].type = "file" THEN <<Dispatched(p)>>
                     ELSE IF fs[p].type = "dir" /\ rec
                     THEN <<Read(p)>> \o Walk(p, 1, rec)
                     ELSE <<>>
         IN  here \o Walk(d, i + 1, rec)

Plan ==
    IF fs[Root].type = "dir" THEN <<Read(Root)>> \o Walk(Root, 1, args.recursive)
    ELSE IF fs[Root].type = "file" THEN <<Dispatched(Root)>>
    ELSE <<>>

DirectoryRun == args.parsed /\ fs[Root].type = "dir"

(***************************************************************************)
(* C1  Fail-fast.  In a directory run, once the dispatch of a file k has   *)
(* returned an error the run has ended with exactly that error; what was   *)
(* read and dispatched is the traversal order up to k and nothing more:    *)
(* no file after k was dispatched, handed to the collaborator or modified, *)
(* and no directory after k was read.                                      *)
(***************************************************************************)
FailFast ==
    DirectoryRun =>
        \A i \in DOMAIN outcomes :
            outcomes[i].res.status = "err" =>
                LET plan == Plan
                IN  /\ i = Len(outcomes)
                    /\ pc = "done"
                    /\ result = outcomes[i].res
                    /\ IsPrefix(trace, plan)
                    /\ trace[Len(trace)] = Dispatched(outcomes[i].path)
                    /\ \A j \in (Len(trace) + 1)..Len(plan) :
                           /\ plan[j] \notin Range(trace)
                           /\ CallsOn(plan[j].path) = {}
                           /\ ~Modified(plan[j].path)

\* a file failed with a file and a subdirectory still ahead of it
FailFastWitness ==
    /\ DirectoryRun
    /\ pc = "done"
    /\ result.kind = "collaborator"
    /\ \E j, k \in (Len(trace) + 1)..Len(Plan) :
           Plan[j].op = "process_file" /\ Plan[k].op = "read_dir"

(***************************************************************************)
(* C2  Without --recursive a directory run reads no directory but the      *)
(* root and dispatches, hands to the collaborator and modifies only direct *)
(* children of the root; an entry that is a directory is passed over: the  *)
(* loop goes on to the next entry with no error and nothing recorded.      *)
(***************************************************************************)
RootOnly ==
    (DirectoryRun /\ ~args.recursive) =>
        /\ \A e \in Range(trace) :
               IF e.op = "process_file" THEN Len(e.path) = 1 ELSE e.path = Root
        /\ \A c \in Range(calls) : Len(c.path) = 1
        /\ \A p \in DOMAIN fs : Len(p) > 1 => ~Modified(p)

AtSubdirectory ==
    /\ pc = "next"
    /\ Top.idx < NumEntries(Top.dir)
    /\ fs[Append(Top.dir, Top.idx + 1)].type = "dir"

NonRecursive ==
    /\ []RootOnly
    /\ [][(AtSubdirectory /\ ~args.recursive) =>
            \/ result'.kind = "next_entry"
            \/ /\ pc' = "next"
               /\ stack' = [stack EXCEPT ![Len(stack)].idx = @ + 1]
               /\ UNCHANGED <<fs, trace, calls, outcomes, result>>]_vars

\* a non-recursive run went past a subdirectory holding a file and
\* dispatched the file after it
NonRecursiveWitness ==
    /\ DirectoryRun /\ ~args.recursive
    /\ pc = "done" /\ result.status = "ok"
    /\ \E i, j \in 1..NumEntries(Root) :
           /\ i < j
           /\ IsDir(<<i>>) /\ IsFile(<<i, 1>>)
           /\ Dispatched(<<j>>) \in Range(trace)

(***************************************************************************)
(* C3  Coverage.  A directory run in which no directory read and no        *)
(* collaborator call failed returns Ok having dispatched exactly once      *)
(* every regular file of the tree when recursive, and exactly once every   *)
(* regular file that is a direct child of the root, and no other, when not.*)
(***************************************************************************)
NoFault ==
    /\ \A e \in Range(trace) : e.ok
    /\ \A o \in Range(outcomes) : o.out \in {"ok", "none"}

Covers ==
    (DirectoryRun /\ pc = "done" /\ NoFault) =>
        /\ result = OkResult
        /\ \A p \in DOMAIN fs :
               Count(trace, Dispatched(p)) =
                   IF fs[p].type = "file" /\ (args.recursive \/ Len(p) = 1)
                   THEN 1 ELSE 0

\* a recursive run dispatched a file of the root and a file two levels down
CoversWitness ==
    /\ DirectoryRun /\ args.recursive /\ pc = "done" /\ NoFault
    /\ \E p, q \in DOMAIN fs :
           /\ Len(p) = 1 /\ Len(q) = MaxDepth
           /\ Dispatched(p) \in Range(trace) /\ Dispatched(q) \in Range(trace)

(***************************************************************************)
(* C4  A file that is neither JXL nor a supported image: process_file      *)
(* returns Ok for it, no collaborator operation is ever invoked on it and  *)
(* it keeps its content; in a directory the loop goes on to the next entry.*)
(***************************************************************************)
NonImage(p) == ~fs[p].jxl /\ ~fs[p].img

SkipsNonImage ==
    /\ [](\A p \in DOMAIN fs : NonImage(p) =>
              /\ CallsOn(p) = {}
              /\ \A c \in inflight : c.path # p
              /\ \A o \in Range(outcomes) :
                     o.path = p => o.branch = "skip" /\ o.res = OkResult
              /\ fs[p].type = "file" => fs[p].content = "data")
    /\ [][(pc = "file" /\ NonImage(cur.path)) =>
            /\ outcomes' = Append(outcomes, Outcome(cur.path, "skip", "none", OkResult))
            /\ UNCHANGED <<fs, calls, inflight>>
            /\ stack # <<>> => (pc' = "next" /\ UNCHANGED <<stack, result>>)
            /\ stack = <<>> => (pc' = "done" /\ result' = OkResult)]_vars

\* a text file was skipped and the file after it was dispatched
SkipsNonImageWitness ==
    /\ pc = "done"
    /\ \E i, j \in DOMAIN trace :
           /\ i < j
           /\ trace[i].op = "process_file" /\ trace[j].op = "process_file"
           /\ fs[trace[i].path] = TextFile

(***************************************************************************)
(* C5  A run on an input path that does not exist ends with the            *)
(* input-not-found error naming the path, and at no point reads a          *)
(* directory, dispatches a file or invokes the collaborator.               *)
(***************************************************************************)
InputNotFound ==
    (args.parsed /\ fs[Root].type = "missing") =>
        /\ trace = <<>> /\ calls = <<>> /\ outcomes = <<>>
        /\ inflight = {} /\ stack = <<>>
        /\ pc \in {"main", "done"}
        /\ pc = "done" =>
               result = Err("InputNotFound", <<Ctx("Input path does not exist", Root)>>)

InputNotFoundWitness ==
    /\ fs[Root].type = "missing"
    /\ pc = "done"
    /\ result.kind = "InputNotFound"

(***************************************************************************)
(* C6  Every error process_file returns after a collaborator failure       *)
(* carries a context that names the path of the file, in the structured    *)
(* branch as in the standard one.                                          *)
(***************************************************************************)
ErrorNamesPath ==
    \A o \in Range(outcomes) :
        o.res.status = "err" => \E c \in Range(o.res.context) : c.path = o.path

\* the part of C6 the code keeps: the standard branch attaches the path
StandardErrorNamesPath ==
    \A o \in Range(outcomes) :
        (o.res.status = "err" /\ o.branch = "standard") =>
            o.res.context = <<Ctx("Failed to process image file", o.path)>>

(***************************************************************************)
(* C7  Routing.  A dispatched path that is JXL goes once to the            *)
(* structured pipeline and never directly to the removal, whatever         *)
(* is_image_file says of it; one that is not JXL but an image goes once to *)
(* the removal with the run's threshold; any other is skipped: one branch  *)
(* per dispatch, and nothing for a path that was not dispatched.           *)
(***************************************************************************)
Pipeline(p) == { i \in DOMAIN calls : calls[i].path = p /\ calls[i].op = "process_jxl_file" }
Direct(p) == { i \in DOMAIN calls : calls[i].path = p /\ calls[i].via = "direct"
                                     /\ calls[i].op = "remove_letterbox_with_threshold" }
Skips(p) == { i \in DOMAIN outcomes : outcomes[i].path = p /\ outcomes[i].branch = "skip" }
Branches(p) == <<Cardinality(Pipeline(p)), Cardinality(Direct(p)), Cardinality(Skips(p))>>

Routing ==
    \A p \in DOMAIN fs :
        IF Dispatched(p) \notin Range(trace) THEN Branches(p) = <<0, 0, 0>>
        ELSE /\ Count(trace, Dispatched(p)) = 1
             /\ IF fs[p].jxl THEN Branches(p) = <<1, 0, 0>>
                ELSE IF fs[p].img
                THEN /\ Branches(p) = <<0, 1, 0>>
                     /\ \A i \in Direct(p) : calls[i].threshold = args.threshold
                ELSE Branches(p) = <<0, 0, 1>>
             /\ \A o \in Range(outcomes) :
                    o.path = p =>
                        o.branch = IF fs[p].jxl THEN "structured"
                                   ELSE IF fs[p].img THEN "standard" ELSE "skip"

\* one run dispatched a JXL file that is_image_file accepts too, a plain
\* image and a text file
RoutingWitness ==
    /\ pc = "done"
    /\ \E p, q, r \in DOMAIN fs :
           /\ fs[p].jxl /\ fs[p].img
           /\ ~fs[q].jxl /\ fs[q].img
           /\ fs[r] = TextFile
           /\ {Dispatched(p), Dispatched(q), Dispatched(r)} \subseteq Range(trace)

(***************************************************************************)
(* C8  One configuration per run.  The parsed arguments never change;      *)
(* every removal, called directly or through the processor handed to the   *)
(* structured pipeline, carries the threshold of the arguments, and every  *)
(* process_directory_inner call, at any depth, carries their recursive     *)
(* flag and threshold.                                                     *)
(***************************************************************************)
SameConfig ==
    args.parsed =>
        /\ args.threshold \in U8
        /\ \A c \in Range(calls) \cup inflight : c.threshold = args.threshold
        /\ \A f \in Range(stack) :
               f.recursive = args.recursive /\ f.threshold = args.threshold
        /\ pc = "file" => cur.threshold = args.threshold

ConfigFixed ==
    /\ []SameConfig
    /\ [][args.parsed => args' = args]_vars

\* below the root, with a threshold that is not the default, a JXL file's
\* processor has been called and a plain image processed
ConfigFixedWitness ==
    /\ args.parsed /\ args.threshold # DefaultThreshold
    /\ Len(stack) = 2
    /\ \E i, j \in DOMAIN calls :
           /\ calls[i].via = "callback" /\ Len(calls[i].path) = 2
           /\ calls[j].via = "direct" /\ calls[j].op = "remove_letterbox_with_threshold"

(***************************************************************************)
(* C9  One operation at a time.  At most one collaborator operation is in  *)
(* flight and the task waits for it: no directory is read, no entry taken  *)
(* and no file dispatched until it has returned; while a subdirectory is   *)
(* being walked the walks of its ancestors do not advance.                 *)
(***************************************************************************)
Sequential ==
    /\ [](Cardinality(inflight) <= 1 /\ (inflight # {} <=> pc = "await"))
    /\ [][inflight # {} => (trace' = trace /\ stack' \in {stack, <<>>})]_vars
    /\ [][\A i \in DOMAIN stack :
              (i < Len(stack) /\ i \in DOMAIN stack') => stack'[i] = stack[i]]_vars

\* an operation is in flight two levels down with entries of the root
\* still to come
SequentialWitness ==
    /\ inflight # {}
    /\ Len(stack) = 2
    /\ stack[1].idx < NumEntries(Root)

(***************************************************************************)
(* C10  Exit.  main returns Ok exactly when the input path exists and no   *)
(* directory read, no entry read and no collaborator call of the run       *)
(* failed; skipped files do not count.  When it returns an error, that is  *)
(* the missing input, a directory read or a collaborator failure.          *)
(***************************************************************************)
ExitStatus ==
    pc = "done" =>
        /\ result.status \in {"ok", "err"}
        /\ result.status = "ok" <=> (fs[Root].type # "missing" /\ NoFault)
        /\ result.status = "err" =>
               result.kind \in {"InputNotFound", "read_dir", "next_entry", "collaborator"}
        /\ result.kind = "InputNotFound" <=> fs[Root].type = "missing"
        /\ result.kind = "collaborator" <=>
               \E o \in Range(outcomes) : o.out \in {"fail", "callback_fail"}
        /\ result.kind \in {"read_dir", "next_entry"} <=> \E e \in Range(trace) : ~e.ok

\* a traversal that only skipped files ended with Ok
ExitStatusWitness ==
    /\ pc = "done"
    /\ result = OkResult
    /\ Len(outcomes) >= 2
    /\ \A o \in Range(outcomes) : o.branch = "skip"

(***************************************************************************)
(* C11  After process_file has returned Ok for a standard image, the file  *)
(* is cropped if it was letterboxed when the run began and is as it was    *)
(* otherwise; this holds file by file, and a run changes no file in any    *)
(* other way.                                                              *)
(***************************************************************************)
CropOf(e) == IF e.content = "boxed" THEN [e EXCEPT !.content = "cropped"] ELSE e

NeverSwallows ==
    \A o \in Range(outcomes) :
        /\ o.branch \in {"structured", "standard"} =>
               /\ o.out \in Outs
               /\ o.res.status = (IF o.out = "ok" THEN "ok" ELSE "err")
               /\ o.res.status = "err" => o.res.kind = "collaborator"
        /\ (fs[o.path].type = "missing" /\ (fs[o.path].jxl \/ fs[o.path].img)) =>
               /\ o.branch # "skip"
               /\ o.res.status = "err"
        /\ (stack = <<>> /\ pc = "done" /\ o.path = Root) => result = o.res

\* process_file("nonexistent.jpg", 10) returned an error
NeverSwallowsWitness ==
    /\ pc = "done"
    /\ fs[Root] = [type |-> "missing", jxl |-> FALSE, img |-> TRUE, content |-> "none"]
    /\ Len(outcomes) = 1
    /\ outcomes[1].branch = "standard"
    /\ result.status = "err"

ThresholdRange ==
    /\ pc = "setup" =>
           \A r \in BOOLEAN, t \in ThresholdArgs :
               IF t \in 0..255
               THEN /\ ENABLED (ParseArgs(r, t) /\ pc' = "main"
                                /\ args' = [recursive |-> r, threshold |-> t,
                                            parsed |-> TRUE])
                    /\ ~ENABLED (ParseArgs(r, t) /\ pc' # "main")
               ELSE /\ ENABLED (ParseArgs(r, t) /\ pc' = "exited")
                    /\ ~ENABLED (ParseArgs(r, t) /\ pc' # "exited")
    /\ pc = "exited" =>
           /\ result = Err("usage", <<>>)
           /\ ~args.parsed /\ run = 0
           /\ trace = <<>> /\ calls = <<>> /\ outcomes = <<>>
           /\ inflight = {} /\ stack = <<>>
    /\ args.parsed => args.threshold \in 0..255
    /\ \A c \in Range(calls) \cup inflight : c.threshold \in 0..255

\* a threshold out of range was rejected although the input path is missing
\* too: the usage error came first
ThresholdRangeWitness ==
    /\ pc = "exited"
    /\ fs[Root].type = "missing"
    /\ result.kind = "usage"

(***************************************************************************)
(* C15  A directory that cannot be read, root or subdirectory, or whose    *)
(* next entry cannot be read, ends the run there with an error naming the  *)
(* directory: nothing that follows in the traversal order is dispatched,   *)
(* called or changed, and the files dispatched before stay as their        *)
(* dispatch left them.                                                     *)
(***************************************************************************)
ReadMessage(op) ==
    IF op = "read_dir" THEN "Failed to read directory"
    ELSE "Failed to read directory entry in"

ReadFailureFatal ==
    run = 1 =>
        \A i \in DOMAIN trace :
            ~trace[i].ok =>
                LET plan == Plan
                IN  /\ trace[i].op \in {"read_dir", "next_entry"}
                    /\ i = Len(trace)
                    /\ pc = "done"
                    /\ result = Err(trace[i].op,
                                    <<Ctx(ReadMessage(trace[i].op), trace[i].path)>>)
                    /\ IsPrefix(SubSeq(trace, 1, i - 1), plan)
                    /\ trace[i].op = "read_dir" =>
                           (i <= Len(plan) /\ plan[i] = Read(trace[i].path))
                    /\ \A j \in i..Len(plan) :
                           /\ plan[j] \notin Range(trace)
                           /\ CallsOn(plan[j].path) = {}
                           /\ fs[plan[j].path] = before[plan[j].path]
                    /\ \A o \in Range(outcomes) :
                           /\ o.res = OkResult
                           /\ o.branch # "skip" =>
                                  fs[o.path] = CropOf(before[o.path])

\* a subdirectory could not be read after an image had been cropped and
\* with a file still to come
ReadFailureFatalWitness ==
    /\ run = 1 /\ pc = "done"
    /\ result.kind = "read_dir"
    /\ trace[Len(trace)].path # Root
    /\ \E o \in Range(outcomes) : fs[o.path].content = "cropped"
    /\ \E j \in (Len(trace) + 1)..Len(Plan) : Plan[j].op = "process_file"

(***************************************************************************)
(* C16  Order.  What a run reads and dispatches is, step for step, the     *)
(* traversal order: entries in the order the listing yields them, and,     *)
(* when recursive, the whole subtree of a subdirectory before any later    *)
(* entry of its parent.  In terms of paths: files are dispatched in        *)
(* lexicographic order of their entry positions.                           *)
(***************************************************************************)
Min(a, b) == IF a <= b THEN a ELSE b
Precedes(p, q) ==
    \E k \in 1..Min(Len(p), Len(q)) :
        /\ p[k] < q[k]
        /\ \A m \in 1..(k - 1) : p[m] = q[m]
Succeeded ==
    IF trace # <<>> /\ ~trace[Len(trace)].ok
    THEN SubSeq(trace, 1, Len(trace) - 1)
    ELSE trace

InOrder ==
    run = 1 =>
        /\ LET plan == Plan
           IN  /\ IsPrefix(Succeeded, plan)
               /\ (pc = "done" /\ NoFault) => trace = plan
        /\ \A i, j \in DOMAIN trace :
               (i < j /\ trace[i].op = "process_file" /\ trace[j].op = "process_file")
                   => Precedes(trace[i].path, trace[j].path)
        /\ \A i, j \in DOMAIN trace :
               (trace[i].op = "read_dir" /\ trace[j].op = "process_file"
                /\ IsPrefix(trace[i].path, trace[j].path)) => i < j

\* a recursive run dispatched the file of a subdirectory and, after it, the
\* later entry of the root
InOrderWitness ==
    /\ run = 1 /\ pc = "done" /\ args.recursive
    /\ \E i \in DOMAIN trace :
           /\ i + 1 \in DOMAIN trace
           /\ trace[i] = Dispatched(<<1, 1>>)
           /\ trace[i + 1] = Dispatched(<<2>>)

(***************************************************************************)
(* C17  Single file.  When the input path is a regular file, main calls    *)
(* process_file once, on that path and with the threshold of the           *)
(* arguments; no process_directory_inner call is ever active, whatever the *)
(* recursive flag; and main returns what process_file returned.            *)
(***************************************************************************)
SingleFile ==
    (run = 1 /\ args.parsed /\ fs[Root].type = "file") =>
        /\ stack = <<>>
        /\ pc \in {"main", "file", "await", "done"}
        /\ IsPrefix(trace, <<Dispatched(Root)>>)
        /\ pc = "file" => cur = [path |-> Root, threshold |-> args.threshold]
        /\ \A c \in Range(calls) \cup inflight :
               c.path = Root /\ c.threshold = args.threshold
        /\ pc = "done" =>
               /\ trace = <<Dispatched(Root)>>
               /\ Len(outcomes) = 1
               /\ outcomes[1].path = Root
               /\ result = outcomes[1].res

\* with --recursive given, main returned the error of the one process_file
\* call on the input file
SingleFileWitness ==
    /\ run = 1 /\ args.recursive /\ fs[Root].type = "file"
    /\ pc = "done"
    /\ result.status = "err"
    /\ Len(outcomes) = 1

(***************************************************************************)
(* C18  Termination.  On a finite tree, when every awaited operation       *)
(* returns, a run that has begun ends, and for good: main returns Ok or an *)
(* error.  On the way no directory is read twice and no file dispatched    *)
(* twice.                                                                  *)
(***************************************************************************)
AtMostOnce ==
    \A i, j \in DOMAIN trace :
        (trace[i].op = trace[j].op /\ trace[i].path = trace[j].path) => i = j

\* no run is under way: none has begun, the command line was rejected, or
\* main has returned
Ended ==
    \/ pc \in {"setup", "exited"}
    \/ pc = "done" /\ result.status \in {"ok", "err"}

Terminates ==
    /\ []AtMostOnce
    /\ <>[]Ended

\* a recursive run that read two directories and dispatched a file has ended
TerminatesWitness ==
    /\ run = 1 /\ pc = "done"
    /\ \E i, j, k \in DOMAIN trace :
           /\ i # j
           /\ trace[i].op = "read_dir" /\ trace[j].op = "read_dir"
           /\ trace[k].op = "process_file"

(***************************************************************************)
(* C19  A path that exists and is neither a regular file nor a directory   *)
(* is passed over.  As the input path: main returns Ok, no directory has   *)
(* been read and nothing dispatched.  As a directory entry: it is never    *)
(* read, dispatched or handed to the collaborator, and the step that meets *)
(* it only moves the loop to the next entry, with no error.                *)
(***************************************************************************)
OtherIgnored ==
    run = 1 =>
        /\ fs[Root].type = "other" =>
               /\ trace = <<>> /\ calls = <<>> /\ outcomes = <<>>
               /\ stack = <<>> /\ inflight = {}
               /\ pc \in {"main", "done"}
               /\ pc = "done" => result = OkResult
        /\ \A p \in DOMAIN fs :
               fs[p].type = "other" =>
                   /\ \A e \in Range(trace) : e.path # p
                   /\ \A f \in Range(stack) : f.dir # p
                   /\ \A o \in Range(outcomes) : o.path # p
                   /\ CallsOn(p) = {}
                   /\ fs[p] = before[p]

AtOther ==
    /\ pc = "next"
    /\ Top.idx < NumEntries(Top.dir)
    /\ fs[Append(Top.dir, Top.idx + 1)].type = "other"

PassesOver ==
    /\ []OtherIgnored
    /\ [][AtOther =>
            \/ result'.kind = "next_entry"
            \/ /\ pc' = "next"
               /\ stack' = [stack EXCEPT ![Len(stack)].idx = @ + 1]
               /\ UNCHANGED <<fs, trace, calls, outcomes, result>>]_vars

\* a recursive run went past an entry that is neither file nor directory,
\* dispatched the file after it and returned Ok
PassesOverWitness ==
    /\ run = 1 /\ DirectoryRun /\ args.recursive
    /\ pc = "done" /\ result = OkResult
    /\ <<1>> \in DOMAIN fs
    /\ fs[<<1>>].type = "other"
    /\ Dispatched(<<2>>) \in Range(trace)

====
